---- MODULE Spec2Model ----
(***************************************************************************)
(* A model of tellurium/utils/omex.py: the COMBINE archive helpers built   *)
(* on libcombine.  The file system is reduced to the single archive file   *)
(* at omexPath, one working directory and the temporary directories; the   *)
(* native library is reduced to the calls the helpers make on it.          *)
(***************************************************************************)
EXTENDS Integers, Sequences, FiniteSets, TLC

\* Longest entry list a caller passes to a build operation.
MaxEntries == 2
\* Most temporary directories that may exist on disk at once.
MaxTmp == 1

-----------------------------------------------------------------------------
(* Formats: libcombine.KnownFormats as the helpers use it.                 *)

SBML == "http://identifiers.org/combine.specifications/sbml"
SEDML == "http://identifiers.org/combine.specifications/sed-ml"
SEDML_L1V2 == "http://identifiers.org/combine.specifications/sed-ml.level-1.version-2"
OMEX == "http://identifiers.org/combine.specifications/omex"
OMEX_MANIFEST == "http://identifiers.org/combine.specifications/omex-manifest"
OMEX_METADATA == "http://identifiers.org/combine.specifications/omex-metadata"

MANIFEST_PATTERN == "manifest.xml"
METADATA_FILE == "metadata.rdf"
BASE_LOCATION == "."

\* The format URIs registered under a short format key.
KnownFormats(formatKey) ==
    CASE formatKey = "sed-ml" -> {SEDML, SEDML_L1V2}
      [] formatKey = "sbml" -> {SBML}
      [] formatKey = "omex" -> {OMEX}
      [] formatKey = "manifest" -> {OMEX_MANIFEST}
      [] OTHER -> {}

\* KnownFormats.isFormat(formatKey, format)
isFormat(formatKey, format) == format \in KnownFormats(formatKey)

\* KnownFormats.guessFormat(file_path): the format guessed from the file itself.
guessFormat(location) ==
    CASE location = "model.xml" -> SBML
      [] location = "sim.sedml" -> SEDML
      [] location = "run.sedml" -> SEDML
      [] location = "manifest.xml" -> OMEX_MANIFEST
      [] location = "sub/manifest.xml" -> OMEX_MANIFEST
      [] location = "metadata.rdf" -> OMEX_METADATA
      [] OTHER -> ""

-----------------------------------------------------------------------------
(* Entries, archive files and directories.                                 *)

\* class Entry: the fields the build operations read.
Entry(location, format, master) ==
    [location |-> location, format |-> format, master |-> master]

\* The file at omexPath: missing, not a readable archive, or an archive with
\* its manifest (the listed entries) and its ZIP members (the stored files).
Absent == [kind |-> "absent", manifest |-> <<>>, members |-> {}]
Invalid == [kind |-> "invalid", manifest |-> <<>>, members |-> {}]
Archive(manifest, members) ==
    [kind |-> "archive", manifest |-> manifest, members |-> members]

\* A directory: whether it exists and the files under it (relative paths).
Dir(exists, files) == [exists |-> exists, files |-> files]

\* Files that lie in a subdirectory: os.walk reaches them after the top level.
NestedFiles == {"sub/manifest.xml"}

\* The orders in which the files of one directory may be listed.
RECURSIVE Perms(_)
Perms(S) ==
    IF S = {} THEN {<<>>}
    ELSE UNION {{<<x>> \o p : p \in Perms(S \ {x})} : x \in S}

\* os.walk(directory): top-level files first, then the subdirectories', each
\* directory's files in the order the file system lists them.
WalkOrders(files) ==
    {p \o q : p \in Perms(files \ NestedFiles), q \in Perms(files \cap NestedFiles)}

\* os.path.exists(os.path.join(workingDir, location))
PathExists(wd, location) ==
    wd.exists /\ (location = BASE_LOCATION \/ location \in wd.files)

SeqLocations(s) == [i \in 1..Len(s) |-> s[i].location]

-----------------------------------------------------------------------------
(* libcombine.CombineArchive as the helpers use it.  A handle holds the    *)
(* entries of its manifest.                                                *)

\* libcombine.CombineArchive(): a new, empty archive handle.
CombineArchive == [entries |-> <<>>]

\* archive.initializeFromArchive(omexPath): the handle loaded from the file,
\* or None (ok = FALSE) when the file is no readable archive.
initializeFromArchive(file) ==
    IF file.kind = "archive"
    THEN [ok |-> TRUE, entries |-> file.manifest]
    ELSE [ok |-> FALSE, entries |-> <<>>]

\* Mutant: the entry is stored with the format guessed from its file.
addFile_GuessedFormat(archive, entry) ==
    [entries |-> Append(archive.entries,
                        Entry(entry.location, guessFormat(entry.location),
                              entry.master))]

\* archive.addFile(path, entry.location, entry.format, entry.master)
addFile(archive, entry) ==
    [entries |-> Append(archive.entries,
                        Entry(entry.location, entry.format, entry.master))]

\* archive.writeToFile(omexPath): the manifest lists every added entry, the
\* ZIP holds the manifest and the entries' files that could be read.
writeToFile(archive, wd) ==
    Archive(archive.entries,
            {MANIFEST_PATTERN} \cup
            {archive.entries[i].location : i \in
                {j \in 1..Len(archive.entries) : archive.entries[j].location \in wd.files}})

-----------------------------------------------------------------------------
(* _addEntriesToArchive                                                    *)

\* What a call did, as its caller and the file system see it.
Result(outcome, file, wd, acquired, released, addCalls, warnings, written) ==
    [outcome |-> outcome, omexFile |-> file, workingDir |-> wd,
     acquired |-> acquired, released |-> released, addCalls |-> addCalls,
     warnings |-> warnings, written |-> written]

\* Mutant: the working directory is not checked before the work starts.
MissingWorkingDir_Unchecked(wd) == FALSE

\* if not os.path.exists(workingDir): raise IOError
MissingWorkingDir(wd) == ~wd.exists

\* Mutant: the old archive is left in place until the new one is written.
RemoveOld_Kept(file, add_entries) == [file |-> file, warnings |-> <<>>]

\* add_entries is False and the archive exists: warn and os.remove(omexPath)
RemoveOld(file, add_entries) ==
    IF ~add_entries /\ file.kind # "absent"
    THEN [file |-> Absent, warnings |-> <<"overwritten">>]
    ELSE [file |-> file, warnings |-> <<>>]

\* add_entries is True and the archive exists: the first handle is initialized
\* from it; None raises IOError.
InitFromExisting(file, add_entries) ==
    IF add_entries /\ file.kind # "absent"
    THEN initializeFromArchive(file)
    ELSE [ok |-> TRUE, entries |-> <<>>]

\* with open(os.path.join(workingDir, "metadata.rdf"), "w"): the file comes to
\* exist.  Its text (one description per entry with a format) is read by no
\* operation of the module and is left out.
WriteMetadata(wd) == Dir(wd.exists, wd.files \cup {METADATA_FILE})

\* archive = libcombine.CombineArchive() before the add loop: the handle the
\* entries are added to (loaded is the handle initialized above).
ArchiveForAdding(loaded) == CombineArchive

\* Mutant: a missing file raises whatever strict says.
StrictRaises_IgnoresStrict(wd, entry, strict) == ~PathExists(wd, entry.location)

\* if not os.path.exists(path): raise IOError(msg) if strict else warn
StrictRaises(wd, entry, strict) == ~PathExists(wd, entry.location) /\ strict

\* for entry in entries: ... archive.addFile(...)
RECURSIVE AddLoop(_, _, _, _, _, _)
AddLoop(archive, entries, i, wd, strict, warnings) ==
    IF i > Len(entries)
    THEN [raised |-> FALSE, archive |-> archive, warnings |-> warnings]
    ELSE IF StrictRaises(wd, entries[i], strict)
    THEN [raised |-> TRUE, archive |-> archive, warnings |-> warnings]
    ELSE AddLoop(addFile(archive, entries[i]), entries, i + 1, wd, strict,
                 IF PathExists(wd, entries[i].location)
                 THEN warnings ELSE Append(warnings, "missing"))

\* cleanUp calls made on the normal path (archive.cleanUp() on the last handle)
CleanUpOnReturn == 1

\* _addEntriesToArchive, in the order of its statements.  The results count
\* the CombineArchive() handles created so far and the cleanUp() calls made.
\* (Opening metadata.rdf in a directory that does not exist raises IOError;
\* the check of the working directory keeps the code from getting there.)
addEntriesToArchive(file, entries, wd, add_entries, strict) ==
    IF MissingWorkingDir(wd)
    THEN Result("IOError", file, wd, 0, 0, <<>>, <<>>, FALSE)
    ELSE
      LET rm == RemoveOld(file, add_entries)
          loaded == InitFromExisting(rm.file, add_entries)
      IN  IF ~loaded.ok
          THEN Result("IOError", rm.file, wd, 1, 0, <<>>, rm.warnings, FALSE)
          ELSE IF ~wd.exists
          THEN Result("IOError", rm.file, wd, 1, 0, <<>>, rm.warnings, FALSE)
          ELSE
            LET wd2 == WriteMetadata(wd)
                loop == AddLoop(ArchiveForAdding(loaded), entries, 1, wd2,
                                strict, rm.warnings)
                added == SubSeq(loop.archive.entries,
                                Len(ArchiveForAdding(loaded).entries) + 1,
                                Len(loop.archive.entries))
            IN  IF loop.raised
                THEN Result("IOError", rm.file, wd2, 2, 0, added,
                            loop.warnings, FALSE)
                ELSE Result("ok", writeToFile(loop.archive, wd2), wd2, 2,
                            CleanUpOnReturn, added, loop.warnings, TRUE)

-----------------------------------------------------------------------------
(* combineArchiveFromDirectory: the entry list built from the directory.   *)

\* Mutant: every file of a recognised format is marked master.
IsMasterFormat_AnyKnown(format) == format # ""

\* master = True iff isFormat(formatKey="sed-ml", format=format)
IsMasterFormat(format) == isFormat("sed-ml", format)

\* location == MANIFEST_PATTERN: continue (the manifest is not packaged)
SkipLocation(location) == location = MANIFEST_PATTERN

\* for root, dirs, files in os.walk(directory): for file in files: ...
RECURSIVE ScanFiles(_, _)
ScanFiles(order, i) ==
    IF i > Len(order) THEN <<>>
    ELSE IF SkipLocation(order[i]) THEN ScanFiles(order, i + 1)
    ELSE <<Entry(order[i], guessFormat(order[i]),
                 IsMasterFormat(guessFormat(order[i])))>>
         \o ScanFiles(order, i + 1)

\* entries = [Entry(location=".", format=".../omex", master=False)] + scanned
DirectoryEntries(order) ==
    <<Entry(BASE_LOCATION, OMEX, FALSE)>> \o ScanFiles(order, 1)

-----------------------------------------------------------------------------
(* extractCombineArchive                                                   *)

ExtractResult(outcome, extracted, acquired, released) ==
    [outcome |-> outcome, extracted |-> extracted,
     acquired |-> acquired, released |-> released]

\* zipfile.ZipFile(omexPath, 'r'): a missing file raises IOError, a file that
\* is no ZIP raises zipfile.BadZipfile (not an IOError).
ZipOpenError(file) ==
    CASE file.kind = "absent" -> "IOError"
      [] file.kind = "invalid" -> "BadZipfile"
      [] OTHER -> "ok"

\* Mutant: only a missing file is reported; an unreadable one passes as loaded.
OmexInitError_AbsentOnly(file) ==
    IF file.kind = "absent" THEN "IOError" ELSE "ok"

\* if omex.initializeFromArchive(omexPath) is None: raise IOError
OmexInitError(file) ==
    IF initializeFromArchive(file).ok THEN "ok" ELSE "IOError"

extractCombineArchive(file, method) ==
    IF method \notin {"zip", "omex"}
    THEN ExtractResult("ValueError", {}, 0, 0)
    ELSE IF method = "zip"
    THEN IF ZipOpenError(file) # "ok"
         THEN ExtractResult(ZipOpenError(file), {}, 0, 0)
         ELSE ExtractResult("ok", file.members, 0, 0)
    ELSE IF OmexInitError(file) # "ok"
         THEN ExtractResult(OmexInitError(file), {}, 1, 0)
         ELSE ExtractResult("ok",
                  {file.manifest[i].location : i \in 1..Len(file.manifest)}, 1, 1)

-----------------------------------------------------------------------------
(* getLocationsByFormat                                                    *)

LocResult(outcome, locations, acquired, released, tmpCreated, tmpRemoved) ==
    [outcome |-> outcome, locations |-> locations, acquired |-> acquired,
     released |-> released, tmpCreated |-> tmpCreated, tmpRemoved |-> tmpRemoved]

\* method "omex": master entries go to locations_master, the others to locations
OmexLocations(manifest, formatKey) ==
    LET Match(e) == isFormat(formatKey, e.format)
        IsMaster(e) == Match(e) /\ e.master
        NotMaster(e) == Match(e) /\ ~e.master
    IN  SeqLocations(SelectSeq(manifest, IsMaster))
        \o SeqLocations(SelectSeq(manifest, NotMaster))

\* method "zip": every extracted file whose guessed format matches goes to
\* locations; locations_master stays empty.
ZipLocations(order, formatKey) ==
    LET Match(location) == isFormat(formatKey, guessFormat(location))
    IN  <<>> \o SelectSeq(order, Match)

\* Mutant: rmtree follows the walk instead of sitting in a finally block.
RmtreeCalls_OnSuccessOnly(tryOutcome) == IF tryOutcome = "ok" THEN 1 ELSE 0

\* finally: shutil.rmtree(tmp_dir), whatever the try block did
RmtreeCalls(tryOutcome) == 1

getLocationsByFormat(file, formatKey, method, order, guessRaises) ==
    IF formatKey = ""
    THEN LocResult("ValueError", <<>>, 0, 0, 0, 0)
    ELSE IF method \notin {"zip", "omex"}
    THEN LocResult("ValueError", <<>>, 0, 0, 0, 0)
    ELSE IF method = "omex"
    THEN IF OmexInitError(file) # "ok"
         THEN LocResult(OmexInitError(file), <<>>, 1, 0, 0, 0)
         ELSE LocResult("ok", OmexLocations(file.manifest, formatKey), 1, 1, 0, 0)
    ELSE LET ex == extractCombineArchive(file, "zip")
             tryOutcome == IF ex.outcome # "ok" THEN ex.outcome
                           ELSE IF guessRaises THEN "OSError" ELSE "ok"
         IN  LocResult(tryOutcome,
                       IF tryOutcome = "ok" THEN ZipLocations(order, formatKey)
                       ELSE <<>>,
                       0, 0, 1, RmtreeCalls(tryOutcome))

-----------------------------------------------------------------------------
(* listContents and printArchive                                           *)

\* info = omex.extractEntryToString(location) for the four model formats; an
\* exception is swallowed and leaves info None.
EntryInfo(entry, extractRaises) ==
    IF (\E formatKey \in {"sed-ml", "sbml", "sbgn", "cellml"} :
            isFormat(formatKey, entry.format)) /\ ~extractRaises
    THEN "text" ELSE "None"

ListResult(outcome, contents, acquired, released) ==
    [outcome |-> outcome, contents |-> contents,
     acquired |-> acquired, released |-> released]

listContents(file, method, extractRaises) ==
    IF method \notin {"omex"}
    THEN ListResult("ValueError", <<>>, 0, 0)
    ELSE IF OmexInitError(file) # "ok"
    THEN ListResult(OmexInitError(file), <<>>, 1, 0)
    ELSE ListResult("ok",
            [i \in 1..Len(file.manifest) |->
                [index |-> i - 1, location |-> file.manifest[i].location,
                 format |-> file.manifest[i].format,
                 master |-> file.manifest[i].master,
                 info |-> EntryInfo(file.manifest[i], extractRaises)]], 1, 1)

\* printArchive: an invalid archive prints a message and returns None before
\* cleanUp; otherwise each entry is printed and the handle cleaned up.
printArchive(file) ==
    IF ~initializeFromArchive(file).ok
    THEN ListResult("ok", <<>>, 1, 0)
    ELSE ListResult("ok",
            [i \in 1..Len(file.manifest) |->
                [index |-> i - 1, location |-> file.manifest[i].location,
                 format |-> file.manifest[i].format,
                 master |-> file.manifest[i].master, info |-> "None"]], 1, 1)

-----------------------------------------------------------------------------
(* The state: the file system the helpers act on, and the record of the    *)
(* last call (its inputs, the state it started from and what it did).      *)

VARIABLES omexFile, workingDir, tmpDirs, last

vars == <<omexFile, workingDir, tmpDirs, last>>

\* The entries callers pass to the build operations.
EntryPool ==
    {Entry("model.xml", SBML, FALSE),
     Entry("sim.sedml", SEDML_L1V2, TRUE),
     Entry("run.sedml", SEDML, FALSE)}

EntryLists == UNION {[1..n -> EntryPool] : n \in 0..MaxEntries}

\* The directories a run starts with.
InitialDirs ==
    {Dir(FALSE, {}),
     Dir(TRUE, {}),
     Dir(TRUE, {"model.xml", "sim.sedml"}),
     Dir(TRUE, {"model.xml", "sim.sedml", "manifest.xml"}),
     Dir(TRUE, {"sim.sedml", "run.sedml", "sub/manifest.xml"})}

\* The files a run may find at omexPath: none, one that is no archive, and an
\* archive written by another tool (one of its ZIP members is not listed).
InitialFiles ==
    {Absent, Invalid,
     Archive(<<Entry(BASE_LOCATION, OMEX, FALSE), Entry("model.xml", SBML, FALSE),
               Entry("sim.sedml", SEDML, TRUE)>>,
             {"manifest.xml", "model.xml", "sim.sedml", "notes.txt"})}

Methods == {"zip", "omex", "tar"}
FormatKeys == {"", "sed-ml", "sbml"}

NoCall ==
    [op |-> "none", outcome |-> "none",
     pre |-> [omexFile |-> Absent, workingDir |-> Dir(FALSE, {}), tmpDirs |-> 0],
     entries |-> <<>>, add_entries |-> FALSE, strict |-> TRUE,
     method |-> "", formatKey |-> "", enumerated |-> <<>>,
     locations |-> <<>>, contents |-> <<>>, extracted |-> {},
     acquired |-> 0, released |-> 0, addCalls |-> <<>>, warnings |-> <<>>,
     written |-> FALSE, tmpCreated |-> 0, tmpRemoved |-> 0]

Pre == [omexFile |-> omexFile, workingDir |-> workingDir, tmpDirs |-> tmpDirs]

Init ==
    /\ omexFile \in InitialFiles
    /\ workingDir \in InitialDirs
    /\ tmpDirs = 0
    /\ last = NoCall

\* No call is in progress: the caller has taken the last call's result.
Idle == last.op = "none"

\* The record of a build call that ran _addEntriesToArchive with result r.
BuildRecord(op, entries, add_entries, strict, warnings, r) ==
    [NoCall EXCEPT !.op = op, !.outcome = r.outcome, !.pre = Pre,
        !.entries = entries, !.add_entries = add_entries, !.strict = strict,
        !.acquired = r.acquired, !.released = r.released,
        !.addCalls = r.addCalls, !.warnings = warnings \o r.warnings,
        !.written = r.written]

CombineArchiveFromEntries ==
    \E entries \in EntryLists :
        LET r == addEntriesToArchive(omexFile, entries, workingDir, FALSE, TRUE)
        IN  /\ Idle
            /\ omexFile' = r.omexFile
            /\ workingDir' = r.workingDir
            /\ UNCHANGED tmpDirs
            /\ last' = BuildRecord("combineArchiveFromEntries", entries, FALSE,
                                   TRUE, <<>>, r)

AddEntriesToCombineArchive ==
    \E entries \in EntryLists :
        LET r == addEntriesToArchive(omexFile, entries, workingDir, TRUE, TRUE)
        IN  /\ Idle
            /\ omexFile' = r.omexFile
            /\ workingDir' = r.workingDir
            /\ UNCHANGED tmpDirs
            /\ last' = BuildRecord("addEntriesToCombineArchive", entries, TRUE,
                                   TRUE, <<>>, r)

\* _addEntriesToArchive called with strict=False.
AddEntriesLenient ==
    \E entries \in EntryLists, add_entries \in BOOLEAN :
        LET r == addEntriesToArchive(omexFile, entries, workingDir, add_entries, FALSE)
        IN  /\ Idle
            /\ omexFile' = r.omexFile
            /\ workingDir' = r.workingDir
            /\ UNCHANGED tmpDirs
            /\ last' = BuildRecord("_addEntriesToArchive", entries, add_entries,
                                   FALSE, <<>>, r)

\* combineArchiveFromDirectory: warn of a manifest, scan, then
\* combineArchiveFromEntries(omexPath, entries, workingDir=directory).
CombineArchiveFromDirectory ==
    \E order \in WalkOrders(workingDir.files) :
        LET entries == DirectoryEntries(order)
            r == addEntriesToArchive(omexFile, entries, workingDir, FALSE, TRUE)
        IN  /\ Idle
            /\ omexFile' = r.omexFile
            /\ workingDir' = r.workingDir
            /\ UNCHANGED tmpDirs
            /\ last' = BuildRecord("combineArchiveFromDirectory", entries, FALSE,
                                   TRUE,
                                   IF MANIFEST_PATTERN \in workingDir.files
                                   THEN <<"manifest">> ELSE <<>>, r)

ExtractCombineArchive ==
    \E method \in Methods :
        LET r == extractCombineArchive(omexFile, method)
        IN  /\ Idle
            /\ UNCHANGED <<omexFile, workingDir, tmpDirs>>
            /\ last' = [NoCall EXCEPT !.op = "extractCombineArchive",
                           !.outcome = r.outcome, !.pre = Pre, !.method = method,
                           !.extracted = r.extracted, !.acquired = r.acquired,
                           !.released = r.released]

GetLocationsByFormat ==
    \E formatKey \in FormatKeys, method \in Methods, guessRaises \in BOOLEAN :
      \E order \in (IF formatKey # "" /\ method = "zip"
                    THEN WalkOrders(omexFile.members) ELSE {<<>>}) :
        LET r == getLocationsByFormat(omexFile, formatKey, method, order, guessRaises)
        IN  /\ Idle
            /\ tmpDirs + r.tmpCreated <= MaxTmp
            /\ tmpDirs' = tmpDirs + r.tmpCreated - r.tmpRemoved
            /\ UNCHANGED <<omexFile, workingDir>>
            /\ last' = [NoCall EXCEPT !.op = "getLocationsByFormat",
                           !.outcome = r.outcome, !.pre = Pre, !.method = method,
                           !.formatKey = formatKey,
                           !.enumerated = IF method = "zip" /\ r.tmpCreated = 1
                                          THEN order ELSE <<>>,
                           !.locations = r.locations, !.acquired = r.acquired,
                           !.released = r.released, !.tmpCreated = r.tmpCreated,
                           !.tmpRemoved = r.tmpRemoved]

ListContents ==
    \E method \in {"omex", "zip"}, extractRaises \in BOOLEAN :
        LET r == listContents(omexFile, method, extractRaises)
        IN  /\ Idle
            /\ UNCHANGED <<omexFile, workingDir, tmpDirs>>
            /\ last' = [NoCall EXCEPT !.op = "listContents", !.outcome = r.outcome,
                           !.pre = Pre, !.method = method, !.contents = r.contents,
                           !.acquired = r.acquired, !.released = r.released]

PrintArchive ==
    LET r == printArchive(omexFile)
    IN  /\ Idle
        /\ UNCHANGED <<omexFile, workingDir, tmpDirs>>
        /\ last' = [NoCall EXCEPT !.op = "printArchive", !.outcome = r.outcome,
                       !.pre = Pre, !.contents = r.contents,
                       !.acquired = r.acquired, !.released = r.released]

\* The call returns to its caller, which goes on to its next call.
Return ==
    /\ ~Idle
    /\ last' = NoCall
    /\ UNCHANGED <<omexFile, workingDir, tmpDirs>>

Next ==
    \/ CombineArchiveFromEntries
    \/ AddEntriesToCombineArchive
    \/ AddEntriesLenient
    \/ CombineArchiveFromDirectory
    \/ ExtractCombineArchive
    \/ GetLocationsByFormat
    \/ ListContents
    \/ PrintArchive
    \/ Return

Spec == Init /\ [][Next]_vars

-----------------------------------------------------------------------------
(* Properties.                                                             *)

BuildOps ==
    {"combineArchiveFromEntries", "addEntriesToCombineArchive",
     "combineArchiveFromDirectory", "_addEntriesToArchive"}

PairsOf(s) == {<<s[i].location, s[i].format>> : i \in 1..Len(s)}

\* The entries of the last call whose file is missing when the add loop runs
\* (metadata.rdf has been written by then).
MissingEntries ==
    {i \in 1..Len(last.entries) :
        /\ last.entries[i].location # "."
        /\ last.entries[i].location \notin
              last.pre.workingDir.files \cup {"metadata.rdf"}}

FirstMissing == CHOOSE i \in MissingEntries : \A j \in MissingEntries : i <= j

\* The add loop of the last call was reached: the working directory exists
\* and, when updating, the existing file could be loaded.
ReachedAddLoop ==
    /\ last.op \in BuildOps
    /\ last.pre.workingDir.exists
    /\ ~(last.add_entries /\ last.pre.omexFile.kind = "invalid")

\* C1: update mode keeps existing content: after addEntriesToCombineArchive
\* returns normally on an existing archive with entries E, the archive at
\* omexPath lists E followed by the new entries.
C1_UpdateKeepsExisting ==
    (/\ last.op = "addEntriesToCombineArchive"
     /\ last.outcome = "ok"
     /\ last.pre.omexFile.kind = "archive")
    => /\ omexFile.kind = "archive"
       /\ omexFile.manifest = last.pre.omexFile.manifest \o last.entries

\* The master flag the archive's manifest gives a location.
MasterLocation(file, location) ==
    \E i \in 1..Len(file.manifest) :
        file.manifest[i].location = location /\ file.manifest[i].master

\* C2: for both lookup methods getLocationsByFormat returns exactly the
\* locations whose format matches formatKey, the master-flagged ones first,
\* each group in the order the entries were enumerated.
C2_MasterFirst ==
    (/\ last.op = "getLocationsByFormat"
     /\ last.outcome = "ok")
    => LET file == last.pre.omexFile
           OmexMatch(e) == isFormat(last.formatKey, e.format)
           OmexMaster(e) == OmexMatch(e) /\ e.master
           OmexOther(e) == OmexMatch(e) /\ ~e.master
           ZipMatch(l) == isFormat(last.formatKey, guessFormat(l))
           ZipMaster(l) == ZipMatch(l) /\ MasterLocation(file, l)
           ZipOther(l) == ZipMatch(l) /\ ~MasterLocation(file, l)
       IN  /\ last.method = "omex" =>
                last.locations = SeqLocations(SelectSeq(file.manifest, OmexMaster))
                                 \o SeqLocations(SelectSeq(file.manifest, OmexOther))
           /\ last.method = "zip" =>
                last.locations = SelectSeq(last.enumerated, ZipMaster)
                                 \o SelectSeq(last.enumerated, ZipOther)

\* The calls that work on a native archive handle.
UsesHandle ==
    \/ last.op \in BuildOps
    \/ last.op \in {"extractCombineArchive", "getLocationsByFormat"}
       /\ last.method = "omex"
    \/ last.op \in {"listContents", "printArchive"}

\* C3: every wrapper call acquires one native archive handle (none when it
\* raises before reaching the library), and every handle it acquired has been
\* released when the call ends, on every exit path.
C3_HandleReleased ==
    UsesHandle => last.acquired <= 1 /\ last.released = last.acquired

C5_RoundTrip ==
    (/\ last.op = "combineArchiveFromEntries"
     /\ last.pre.workingDir.exists
     /\ MissingEntries = {})
    => /\ last.outcome = "ok"
       /\ \A extractRaises \in BOOLEAN :
             LET listed == listContents(omexFile, "omex", extractRaises)
             IN  /\ listed.outcome = "ok"
                 /\ PairsOf(listed.contents) = PairsOf(last.entries)

\* C5 witness: a fresh build of two different entries over an existing archive returned.
C5_Witness ==
    /\ last.op = "combineArchiveFromEntries"
    /\ last.outcome = "ok"
    /\ last.pre.omexFile.kind = "archive"
    /\ Cardinality(PairsOf(last.entries)) = 2
    /\ PairsOf(last.entries) # PairsOf(last.pre.omexFile.manifest)

\* C6: combineArchiveFromDirectory builds the base entry '.' and one entry per
\* file under the directory except a top-level manifest.xml; an entry is
\* master iff its guessed format matches the 'sed-ml' key.
C6_DirectoryEntries ==
    last.op = "combineArchiveFromDirectory"
    => LET files == last.pre.workingDir.files \ {"manifest.xml"}
           es == last.entries
       IN  /\ Len(es) = Cardinality(files) + 1
           /\ es[1] = Entry(".", OMEX, FALSE)
           /\ {es[i].location : i \in 2..Len(es)} = files
           /\ \A i \in 2..Len(es) :
                /\ es[i].format = guessFormat(es[i].location)
                /\ es[i].master <=> isFormat("sed-ml", guessFormat(es[i].location))
                /\ es[i].master <=> es[i].location \in {"sim.sedml", "run.sedml"}

\* C6 witness: a directory holding manifest.xml, model.xml and sim.sedml was packaged.
C6_Witness ==
    /\ last.op = "combineArchiveFromDirectory"
    /\ last.outcome = "ok"
    /\ {"manifest.xml", "model.xml", "sim.sedml"} \subseteq last.pre.workingDir.files
    /\ \E i \in 1..Len(last.entries) :
          last.entries[i].location = "sim.sedml" /\ last.entries[i].master
    /\ \E i \in 1..Len(last.entries) :
          last.entries[i].location = "model.xml" /\ ~last.entries[i].master

\* C7: a build operation called with a working directory that does not exist
\* raises IOError before any change: the archive at omexPath is kept, no
\* metadata.rdf is written and no native handle is acquired.
C7_MissingDirNoChange ==
    (/\ last.op \in BuildOps
     /\ ~last.pre.workingDir.exists)
    => /\ last.outcome = "IOError"
       /\ omexFile = last.pre.omexFile
       /\ workingDir = last.pre.workingDir
       /\ last.acquired = 0
       /\ ~last.written
       /\ last.addCalls = <<>>

\* C7 witness: a fresh build was called on a missing directory while an archive existed.
C7_Witness ==
    /\ last.op \in {"combineArchiveFromEntries", "combineArchiveFromDirectory"}
    /\ ~last.pre.workingDir.exists
    /\ last.pre.omexFile.kind = "archive"
    /\ last.outcome = "IOError"

\* C8: in _addEntriesToArchive an entry whose file is missing raises IOError
\* when strict, no entry from that one on is added and no archive is written;
\* when not strict a warning is emitted, the add is still made, the remaining
\* entries are processed and the archive is written.
C8_MissingFile ==
    (ReachedAddLoop /\ MissingEntries # {})
    => IF last.strict
       THEN /\ last.outcome = "IOError"
            /\ last.addCalls = SubSeq(last.entries, 1, FirstMissing - 1)
            /\ ~last.written
            /\ omexFile \in {last.pre.omexFile, Absent}
       ELSE /\ last.outcome = "ok"
            /\ \E k \in 1..Len(last.warnings) : last.warnings[k] = "missing"
            /\ last.addCalls = last.entries
            /\ last.written
            /\ omexFile.kind = "archive"
            /\ omexFile.manifest = last.entries

\* C8 witness: a lenient build whose first of two entries has no file returned.
C8_Witness ==
    /\ ReachedAddLoop
    /\ ~last.strict
    /\ Len(last.entries) = 2
    /\ MissingEntries = {1}
    /\ last.outcome = "ok"

\* C9: getLocationsByFormat with method 'zip' creates one temporary directory
\* and has removed it when the call ends, however the call ends.
C9_TmpDirRemoved ==
    /\ tmpDirs = 0
    /\ (/\ last.op = "getLocationsByFormat"
        /\ last.method = "zip"
        /\ last.formatKey # "")
       => last.tmpCreated = 1 /\ last.tmpRemoved = 1

\* C9 witness: a zip lookup that raised inside the try block created its directory.
C9_Witness ==
    /\ last.op = "getLocationsByFormat"
    /\ last.method = "zip"
    /\ last.outcome \in {"BadZipfile", "OSError"}
    /\ last.tmpCreated = 1

\* C10: when combineArchiveFromEntries is called with an existing working
\* directory and raises the missing-file IOError, no archive is left at
\* omexPath, even if one was there before, and metadata.rdf has been written.
C10_DeleteThenWrite ==
    (/\ last.op = "combineArchiveFromEntries"
     /\ last.pre.workingDir.exists
     /\ last.outcome = "IOError")
    => /\ MissingEntries # {}
       /\ omexFile = Absent
       /\ "metadata.rdf" \in workingDir.files

\* C10 witness: a fresh build over an existing archive raised the missing-file IOError.
C10_Witness ==
    /\ last.op = "combineArchiveFromEntries"
    /\ last.pre.workingDir.exists
    /\ last.outcome = "IOError"
    /\ last.pre.omexFile.kind = "archive"
    /\ "metadata.rdf" \notin last.pre.workingDir.files

====
